---------------------------- MODULE Spec2Model ----------------------------
(***************************************************************************)
(* Asynchronous job supervision of ui/src-tauri/src/main.rs:               *)
(* run_moldock_async, its background threads, get_run_job_status, the job  *)
(* registry (JOB_COUNTER, JOB_STATUS) and the stop-signal file.            *)
(*                                                                         *)
(* Strings of the program are sequences of one-character strings, so that  *)
(* trim, starts_with and format! are computed and not assumed.             *)
(* Option<T> is a sequence of length 0 (None) or 1 (Some(v)).              *)
(*                                                                         *)
(* Operating-system contract assumed for std::process::Child: wait()       *)
(* returns only once the child has ended, and an Err from wait()/try_wait()*)
(* is the OS failing to report the status of a child that has ended; a     *)
(* child that is alive makes try_wait() return Ok(None) and kill()         *)
(* succeed.  The mutex of JOB_STATUS is never poisoned: no holder of the   *)
(* lock can panic (the critical sections are a single map operation).      *)
(* The file operations on state/stop_progress_watcher (exists, remove_file,*)
(* create_dir_all, write) succeed; exists+remove_file is one step.         *)
(***************************************************************************)
EXTENDS Integers, Sequences, FiniteSets, TLC

\* ------------------------------------------------------------------ bounds
\* Number of run_moldock_async calls made in one behaviour.
MaxCalls == 2

\* `for _ in 0..20` of the coordinator thread.
PollAttempts == 20

\* JOB_COUNTER starts at 1.
FirstJobId == 1

Calls == 1..MaxCalls

\* Exit codes a worker process may report (i32).
ExitCodes == {-10, 0, 2}

\* ----------------------------------------------------------------- strings
None == <<>>
Some(v) == <<v>>

S_run == <<"r", "u", "n">>
S_completed == <<"c", "o", "m", "p", "l", "e", "t", "e", "d">>
S_failed == <<"f", "a", "i", "l", "e", "d">>
S_runner_exit_code == <<"r", "u", "n", "n", "e", "r", "_", "e", "x", "i", "t", "_", "c", "o", "d", "e", "=">>
S_watch_ == <<"w", "a", "t", "c", "h", "_">>
S_runner_wait_failed == <<"r", "u", "n", "n", "e", "r", "_", "w", "a", "i", "t", "_", "f", "a", "i", "l", "e", "d">>

IsWhitespace(ch) == ch \in {" ", "\t", "\n", "\r"}

RECURSIVE TrimStart(_)
TrimStart(s) ==
    IF s # <<>> /\ IsWhitespace(Head(s)) THEN TrimStart(Tail(s)) ELSE s

RECURSIVE TrimEnd(_)
TrimEnd(s) ==
    IF s # <<>> /\ IsWhitespace(s[Len(s)])
    THEN TrimEnd(SubSeq(s, 1, Len(s) - 1))
    ELSE s

\* str::trim
Trim(s) == TrimEnd(TrimStart(s))

\* str::starts_with(char)
StartsWith(s, ch) == s # <<>> /\ Head(s) = ch

DigitChar(d) == <<"0", "1", "2", "3", "4", "5", "6", "7", "8", "9">>[d + 1]

RECURSIVE FormatNat(_)
FormatNat(n) ==
    IF n < 10 THEN <<DigitChar(n)>>
    ELSE FormatNat(n \div 10) \o <<DigitChar(n % 10)>>

\* format!("{}", code) for an i32
FormatI32(n) == IF n < 0 THEN <<"-">> \o FormatNat(-n) ELSE FormatNat(n)


\* ------------------------------------------------------------ pure helpers
\* resolve_project_dir_from_args with the working directory taken first.
resolve_project_dir_cwd_first(args, cwd) ==
    IF cwd # None THEN cwd
    ELSE IF Len(args) >= 2 /\ args[1] = S_run
            /\ Trim(args[2]) # <<>> /\ ~StartsWith(Trim(args[2]), "-")
    THEN Some(Trim(args[2]))
    ELSE None

\* resolve_project_dir_from_args(args, cwd)
resolve_project_dir_from_args(args, cwd) ==
    IF Len(args) >= 2 /\ args[1] = S_run
       /\ Trim(args[2]) # <<>> /\ ~StartsWith(Trim(args[2]), "-")
    THEN Some(Trim(args[2]))
    ELSE cwd

\* args.first().map(|v| v == "run").unwrap_or(false)
is_run_command(args) == Len(args) >= 1 /\ args[1] = S_run

\* format!("watch_{}", n) for the u64 n read from JOB_COUNTER
WatcherRunIdText(n) == S_watch_ \o FormatNat(n)

\* The payload write_stop_signal(stop_file, phase, message) writes.
StopPayload(phase, message) ==
    IF Trim(message) = <<>> THEN phase ELSE phase \o <<"|">> \o message

\* PhaseOfCode with only exit code 0 taken as a completed run.
PhaseOfCodeZeroOnly(code) ==
    IF code = 0
    THEN [phase |-> S_completed, message |-> <<>>]
    ELSE [phase |-> S_failed, message |-> S_runner_exit_code \o FormatI32(code)]

\* (phase, message) the coordinator derives from the worker's exit code.
PhaseOfCode(code) ==
    IF code = 0 \/ code = 2
    THEN [phase |-> S_completed, message |-> <<>>]
    ELSE [phase |-> S_failed, message |-> S_runner_exit_code \o FormatI32(code)]

\* (phase, message) when child.wait() returned Err.
PhaseOfWaitFailure == [phase |-> S_failed, message |-> S_runner_wait_failed]

\* status.code().unwrap_or(1)
UnwrapOr(opt, default) == IF opt = None THEN default ELSE opt[1]

\* HashMap::insert(key, value)
MapInsert(map, key, value) ==
    [k \in DOMAIN map \cup {key} |-> IF k = key THEN value ELSE map[k]]

\* FetchAddStore with the increment lost.
FetchAddStoreSame(counter) == counter

\* AtomicU64::fetch_add(1): the value stored back (the old one is returned).
FetchAddStore(counter) == counter + 1

\* RunJobStatusOf with an absent id answered like a running job.
RunJobStatusOfAbsentRunning(map, id) ==
    IF id \notin DOMAIN map \/ map[id] = None
    THEN [found |-> TRUE, running |-> TRUE, exit_code |-> None]
    ELSE [found |-> TRUE, running |-> FALSE, exit_code |-> map[id]]

\* The RunJobStatus get_run_job_status(job_id) builds from the registry.
RunJobStatusOf(map, id) ==
    IF id \notin DOMAIN map
    THEN [found |-> FALSE, running |-> FALSE, exit_code |-> None]
    ELSE IF map[id] = None
    THEN [found |-> TRUE, running |-> TRUE, exit_code |-> None]
    ELSE [found |-> TRUE, running |-> FALSE, exit_code |-> map[id]]

\* ------------------------------------------------------------------ inputs
\* The project directories the sampled arguments resolve to.
Dir_p == <<"p">>
Dir_q == <<"q">>
Dirs == {Dir_p, Dir_q}

\* Argument vectors handed to run_moldock_async.
ArgSamples ==
    { <<S_run, Dir_p>>,
      <<S_run, <<" ", "p", " ">>>>,
      <<S_run, <<"-", "f">>>>,
      <<S_run, <<" ">>>>,
      <<S_run, <<" ", "-", "f">>>>,
      <<S_run, Dir_p, <<"x">>>>,
      <<S_run>>,
      <<<<"s">>, Dir_p>>,
      <<>> }

\* Working directories handed to run_moldock_async.
CwdSamples == {None, Some(Dir_p), Some(Dir_q)}

\* The (args, cwd) pairs handed to run_moldock_async.
WideInputs == [args : ArgSamples, cwd : CwdSamples]

\* One pair for each way through run_moldock_async: a command other than
\* run, a run whose project directory resolves, a run where it does not.
LaunchInputs ==
    { [args |-> <<<<"s">>, Dir_p>>, cwd |-> None],
      [args |-> <<S_run, <<" ", "p", " ">>>>, cwd |-> None],
      [args |-> <<S_run>>, cwd |-> None] }

\* Job ids a caller may query: 0, the ids issued, and some never issued.
QueryIds == 0 .. (MaxCalls + 2)

WorkerPid(c) == 100 + c
WatcherPid(c) == 200 + c

\* What child.wait() yields for a worker that has ended: Ok(status) with
\* status.code() = Some(n) or None (ended by a signal), or Err.
WaitOutcomes ==
    { [wait_ok |-> TRUE, code |-> Some(n)] : n \in ExitCodes }
    \cup { [wait_ok |-> TRUE, code |-> None], [wait_ok |-> FALSE, code |-> None] }

\* The outcomes drawn where the exit code plays no part: a clean exit and a
\* failing wait.
FewOutcomes == {[wait_ok |-> TRUE, code |-> Some(0)], [wait_ok |-> FALSE, code |-> None]}

NoOutcome == [wait_ok |-> FALSE, code |-> None]
NoSignal == [phase |-> <<>>, message |-> <<>>]

\* ------------------------------------------------------------------- state
VARIABLES
    JOB_COUNTER,    \* static JOB_COUNTER: AtomicU64
    JOB_STATUS,     \* static JOB_STATUS: HashMap<u64, Option<i32>>
    stop_file,      \* per project dir: content of state/stop_progress_watcher
    pc,             \* per call: position in run_moldock_async
    job_id,         \* per call: local job_id (0 before it is allocated)
    project_dir,    \* per call: local project_dir, None outside the run path
    watcher_run_id, \* per call: n of watch_<n>, 0 before it is read
    result,         \* per call: None while running, else the Result returned
    worker,         \* per call: worker process "unstarted" | "running" | "ended"
    worker_outcome, \* per call: what wait() on the ended worker yields
    watcher,        \* per call: watcher process "unstarted"|"alive"|"exited"|"reaped"
    tpc,            \* per call: position of its background thread
    tsignal,        \* per call: (phase, message) local to the coordinator thread
    polls,          \* per call: iterations of the poll loop that slept (0 outside the loop)
    stop_writer,    \* history: per project dir, the call whose thread wrote the file (0: none of them)
    written,        \* history: per call, the payloads its thread wrote, in order
    kill_issued,    \* history: per call, the coordinator called watcher_child.kill()
    launch_input,   \* history: per call, the (args, cwd) it was made with (None before the dispatch)
    seen_file       \* history: per call, until its watcher is spawned: the writer of the stop file it found

vars == <<JOB_COUNTER, JOB_STATUS, stop_file, pc, job_id, project_dir,
          watcher_run_id, result, worker, worker_outcome, watcher, tpc,
          tsignal, polls, stop_writer, written, kill_issued, launch_input,
          seen_file>>

callVars == <<pc, job_id, project_dir, watcher_run_id, result>>
threadVars == <<tpc, tsignal, polls>>
historyVars == <<stop_writer, written, kill_issued, launch_input, seen_file>>

\* A stop-signal file may be left behind in a project (here: in Dir_p) by an
\* earlier run of the application.
Init ==
    /\ JOB_COUNTER = FirstJobId
    /\ JOB_STATUS = <<>>
    /\ stop_file \in {f \in [Dirs -> {None, Some(S_completed)}] : f[Dir_q] = None}
    /\ pc = [c \in Calls |-> "idle"]
    /\ job_id = [c \in Calls |-> 0]
    /\ project_dir = [c \in Calls |-> None]
    /\ watcher_run_id = [c \in Calls |-> 0]
    /\ result = [c \in Calls |-> None]
    /\ worker = [c \in Calls |-> "unstarted"]
    /\ worker_outcome = [c \in Calls |-> NoOutcome]
    /\ watcher = [c \in Calls |-> "unstarted"]
    /\ tpc = [c \in Calls |-> "none"]
    /\ tsignal = [c \in Calls |-> NoSignal]
    /\ polls = [c \in Calls |-> 0]
    /\ stop_writer = [d \in Dirs |-> 0]
    /\ written = [c \in Calls |-> <<>>]
    /\ kill_issued = [c \in Calls |-> FALSE]
    /\ launch_input = [c \in Calls |-> None]
    /\ seen_file = [c \in Calls |-> None]

\* OkResult with a watcher pid in every RunJob.
OkResultWatched(c, watcher_pid) ==
    Some([ok |-> TRUE, err |-> "",
          job |-> Some([job_id |-> job_id[c], pid |-> Some(WorkerPid(c)),
                        watcher_pid |-> Some(WatcherPid(c))])])

\* Ok(RunJob { job_id, pid: Some(pid), watcher_pid })
OkResult(c, watcher_pid) ==
    Some([ok |-> TRUE, err |-> "",
          job |-> Some([job_id |-> job_id[c], pid |-> Some(WorkerPid(c)),
                        watcher_pid |-> watcher_pid])])

ErrResult(what) == Some([ok |-> FALSE, err |-> what, job |-> None])

IsPaired(c) == project_dir[c] # None
DirOf(c) == project_dir[c][1]

\* ------------------------------------------------- run_moldock_async (call)
\* let job_id = JOB_COUNTER.fetch_add(1, Ordering::Relaxed);
\* Call slots are taken in order (slot c starts after slot c-1 has started).
AllocJobId(c) ==
    /\ pc[c] = "idle"
    /\ c > 1 => pc[c - 1] # "idle"
    /\ job_id' = [job_id EXCEPT ![c] = JOB_COUNTER]
    /\ JOB_COUNTER' = FetchAddStore(JOB_COUNTER)
    /\ pc' = [pc EXCEPT ![c] = "register"]
    /\ UNCHANGED <<JOB_STATUS, stop_file, project_dir, watcher_run_id, result,
                   worker, worker_outcome, watcher, threadVars, historyVars>>

\* RegisterRunning with the insert left out.
RegisterNothing(map, id) == map

\* The registry after run_moldock_async has registered its job id.
RegisterRunning(map, id) == MapInsert(map, id, None)

\* if let Ok(mut map) = job_status_map().lock() { map.insert(job_id, None); }
RegisterJob(c) ==
    /\ pc[c] = "register"
    /\ JOB_STATUS' = RegisterRunning(JOB_STATUS, job_id[c])
    /\ pc' = [pc EXCEPT ![c] = "dispatch"]
    /\ UNCHANGED <<JOB_COUNTER, stop_file, job_id, project_dir, watcher_run_id,
                   result, worker, worker_outcome, watcher, threadVars,
                   historyVars>>

\* !is_run_command: spawn the worker, spawn the thread, return the RunJob;
\* or return the launch error when command.spawn() fails.
LaunchUnpairedFrom(c, inputs) ==
    /\ pc[c] = "dispatch"
    /\ \E inp \in inputs :
         /\ ~is_run_command(inp.args)
         /\ launch_input' = [launch_input EXCEPT ![c] = Some(inp)]
    /\ \E spawned \in BOOLEAN :
         IF spawned
         THEN /\ worker' = [worker EXCEPT ![c] = "running"]
              /\ tpc' = [tpc EXCEPT ![c] = "wait"]
              /\ result' = [result EXCEPT ![c] = OkResult(c, None)]
         ELSE /\ result' = [result EXCEPT ![c] = ErrResult("worker")]
              /\ UNCHANGED <<worker, tpc>>
    /\ pc' = [pc EXCEPT ![c] = "returned"]
    /\ UNCHANGED <<JOB_COUNTER, JOB_STATUS, stop_file, job_id, project_dir,
                   watcher_run_id, worker_outcome, watcher, tsignal, polls,
                   stop_writer, written, kill_issued, seen_file>>

LaunchUnpaired(c) == LaunchUnpairedFrom(c, LaunchInputs)

\* ClearStopFile with the file left in place.
ClearStopFileNot(files, dir) == files

\* The stop file after `if stop_file.exists() { remove_file(&stop_file) }`.
ClearStopFile(files, dir) == [files EXCEPT ![dir] = None]

\* The stop file a call finds in dir: None, or the writer of the file.
FileSeen(dir) == IF stop_file[dir] = None THEN None ELSE Some(stop_writer[dir])

\* is_run_command: resolve the project directory (or return the error) and
\* clear a stale stop signal.
BeginPairedFrom(c, inputs) ==
    /\ pc[c] = "dispatch"
    /\ \E inp \in inputs :
         /\ is_run_command(inp.args)
         /\ launch_input' = [launch_input EXCEPT ![c] = Some(inp)]
         /\ LET dir == resolve_project_dir_from_args(inp.args, inp.cwd) IN
            IF dir = None
            THEN /\ result' = [result EXCEPT ![c] = ErrResult("project_dir")]
                 /\ pc' = [pc EXCEPT ![c] = "returned"]
                 /\ UNCHANGED <<project_dir, stop_file, seen_file>>
            ELSE /\ project_dir' = [project_dir EXCEPT ![c] = dir]
                 /\ seen_file' = [seen_file EXCEPT ![c] = FileSeen(dir[1])]
                 /\ stop_file' = ClearStopFile(stop_file, dir[1])
                 /\ pc' = [pc EXCEPT ![c] = "load_run_id"]
                 /\ UNCHANGED result
    /\ UNCHANGED <<JOB_COUNTER, JOB_STATUS, job_id, watcher_run_id, worker,
                   worker_outcome, watcher, threadVars, stop_writer, written,
                   kill_issued>>

BeginPaired(c) == BeginPairedFrom(c, LaunchInputs)

\* let watcher_run_id = format!("watch_{}", JOB_COUNTER.load(Ordering::Relaxed));
LoadRunId(c) ==
    /\ pc[c] = "load_run_id"
    /\ watcher_run_id' = [watcher_run_id EXCEPT ![c] = JOB_COUNTER]
    /\ pc' = [pc EXCEPT ![c] = "spawn_watcher"]
    /\ UNCHANGED <<JOB_COUNTER, JOB_STATUS, stop_file, job_id, project_dir,
                   result, worker, worker_outcome, watcher, threadVars,
                   historyVars>>

\* SpawnWatcher with the worker and its thread started before the failure
\* of watcher.spawn() is returned.
SpawnWatcherWorkerFirst(c) ==
    /\ pc[c] = "spawn_watcher"
    /\ \E spawned \in BOOLEAN :
         IF spawned
         THEN /\ watcher' = [watcher EXCEPT ![c] = "alive"]
              /\ pc' = [pc EXCEPT ![c] = "spawn_worker"]
              /\ UNCHANGED <<result, worker, tpc>>
         ELSE /\ result' = [result EXCEPT ![c] = ErrResult("watcher")]
              /\ pc' = [pc EXCEPT ![c] = "returned"]
              /\ worker' = [worker EXCEPT ![c] = "running"]
              /\ tpc' = [tpc EXCEPT ![c] = "wait"]
              /\ UNCHANGED watcher
    /\ seen_file' = [seen_file EXCEPT ![c] = None]
    /\ UNCHANGED <<JOB_COUNTER, JOB_STATUS, stop_file, job_id, project_dir,
                   watcher_run_id, worker_outcome, tsignal, polls,
                   stop_writer, written, kill_issued, launch_input>>

\* watcher.spawn(): the watcher starts, or the call returns the error.
SpawnWatcher(c) ==
    /\ pc[c] = "spawn_watcher"
    /\ \E spawned \in BOOLEAN :
         IF spawned
         THEN /\ watcher' = [watcher EXCEPT ![c] = "alive"]
              /\ pc' = [pc EXCEPT ![c] = "spawn_worker"]
              /\ UNCHANGED result
         ELSE /\ result' = [result EXCEPT ![c] = ErrResult("watcher")]
              /\ pc' = [pc EXCEPT ![c] = "returned"]
              /\ UNCHANGED watcher
    /\ seen_file' = [seen_file EXCEPT ![c] = None]
    /\ UNCHANGED <<JOB_COUNTER, JOB_STATUS, stop_file, job_id, project_dir,
                   watcher_run_id, worker, worker_outcome, threadVars,
                   stop_writer, written, kill_issued, launch_input>>

\* KillAndReap with the kill and the wait left out.
KillAndReapNot(procs, c) == procs

\* watcher_child.kill(); watcher_child.wait(): the watcher is dead and reaped.
KillAndReap(procs, c) == [procs EXCEPT ![c] = "reaped"]

\* command.spawn() of the paired worker: on success spawn the coordinator
\* thread and return the RunJob; on failure kill and reap the watcher and
\* return the error.
SpawnPairedWorker(c) ==
    /\ pc[c] = "spawn_worker"
    /\ \E spawned \in BOOLEAN :
         IF spawned
         THEN /\ worker' = [worker EXCEPT ![c] = "running"]
              /\ tpc' = [tpc EXCEPT ![c] = "wait"]
              /\ result' = [result EXCEPT ![c] = OkResult(c, Some(WatcherPid(c)))]
              /\ UNCHANGED watcher
         ELSE /\ watcher' = KillAndReap(watcher, c)
              /\ result' = [result EXCEPT ![c] = ErrResult("worker")]
              /\ UNCHANGED <<worker, tpc>>
    /\ pc' = [pc EXCEPT ![c] = "returned"]
    /\ UNCHANGED <<JOB_COUNTER, JOB_STATUS, stop_file, job_id, project_dir,
                   watcher_run_id, worker_outcome, tsignal, polls, historyVars>>

\* ------------------------------------------------------- external processes
\* The worker process ends; the outcome is what wait() on it will yield.
WorkerEndsWith(c, outcomes) ==
    /\ worker[c] = "running"
    /\ worker' = [worker EXCEPT ![c] = "ended"]
    /\ \E o \in outcomes : worker_outcome' = [worker_outcome EXCEPT ![c] = o]
    /\ UNCHANGED <<JOB_COUNTER, JOB_STATUS, stop_file, callVars, watcher,
                   threadVars, historyVars>>

WorkerEnds(c) == WorkerEndsWith(c, WaitOutcomes)

\* The watcher process finds the stop-signal file of its project, deletes it
\* and exits (moldockpipe.progress_watcher, not part of main.rs).
WatcherSeesStop(c) ==
    /\ watcher[c] = "alive"
    /\ stop_file[DirOf(c)] # None
    /\ stop_file' = [stop_file EXCEPT ![DirOf(c)] = None]
    /\ watcher' = [watcher EXCEPT ![c] = "exited"]
    /\ UNCHANGED <<JOB_COUNTER, JOB_STATUS, callVars, worker, worker_outcome,
                   threadVars, historyVars>>

\* The watcher process ends for a reason of its own (a crash).
WatcherDies(c) ==
    /\ watcher[c] = "alive"
    /\ watcher' = [watcher EXCEPT ![c] = "exited"]
    /\ UNCHANGED <<JOB_COUNTER, JOB_STATUS, stop_file, callVars, worker,
                   worker_outcome, threadVars, historyVars>>

\* ------------------------------------------------------ background threads
\* WaitReturns not blocking on a worker that still runs.
WaitReturnsEarly(c) == worker[c] # "unstarted"

\* child.wait() of the background thread returns.
WaitReturns(c) == worker[c] = "ended"

\* let code = child.wait().ok().and_then(|s| s.code());
UnpairedCode(outcome) == IF outcome.wait_ok THEN outcome.code ELSE None

\* The exit code the coordinator records: status.code().unwrap_or(1) after
\* Ok(status), 1 after Err.
PairedCode(outcome) == IF outcome.wait_ok THEN UnwrapOr(outcome.code, 1) ELSE 1

\* (phase, message) of the coordinator's match on the wait result.
PairedSignal(outcome) ==
    IF outcome.wait_ok THEN PhaseOfCode(UnwrapOr(outcome.code, 1))
    ELSE PhaseOfWaitFailure

\* Thread of a non-paired job: wait for the worker, record the code.
UnpairedThread(c) ==
    /\ tpc[c] = "wait"
    /\ ~IsPaired(c)
    /\ WaitReturns(c)
    /\ JOB_STATUS' = MapInsert(JOB_STATUS, job_id[c], UnpairedCode(worker_outcome[c]))
    /\ tpc' = [tpc EXCEPT ![c] = "done"]
    /\ UNCHANGED <<JOB_COUNTER, stop_file, callVars, worker, worker_outcome,
                   watcher, tsignal, polls, historyVars>>

\* CoordinatorRecord with the map.insert left out.
CoordinatorRecordNoInsert(c) ==
    /\ tpc[c] = "wait"
    /\ IsPaired(c)
    /\ WaitReturns(c)
    /\ tsignal' = [tsignal EXCEPT ![c] = PairedSignal(worker_outcome[c])]
    /\ tpc' = [tpc EXCEPT ![c] = "signal"]
    /\ UNCHANGED <<JOB_COUNTER, JOB_STATUS, stop_file, callVars, worker,
                   worker_outcome, watcher, polls, historyVars>>

\* Coordinator thread: wait for the worker, record the code in the registry
\* and compute (phase, message).
CoordinatorRecord(c) ==
    /\ tpc[c] = "wait"
    /\ IsPaired(c)
    /\ WaitReturns(c)
    /\ JOB_STATUS' = MapInsert(JOB_STATUS, job_id[c], Some(PairedCode(worker_outcome[c])))
    /\ tsignal' = [tsignal EXCEPT ![c] = PairedSignal(worker_outcome[c])]
    /\ tpc' = [tpc EXCEPT ![c] = "signal"]
    /\ UNCHANGED <<JOB_COUNTER, stop_file, callVars, worker, worker_outcome,
                   watcher, polls, historyVars>>

\* write_stop_signal(&stop_file, phase, &message);
CoordinatorWriteStop(c) ==
    /\ tpc[c] = "signal"
    /\ LET payload == StopPayload(tsignal[c].phase, tsignal[c].message) IN
         /\ stop_file' = [stop_file EXCEPT ![DirOf(c)] = Some(payload)]
         /\ written' = [written EXCEPT ![c] = Append(@, payload)]
    /\ stop_writer' = [stop_writer EXCEPT ![DirOf(c)] = c]
    /\ tpc' = [tpc EXCEPT ![c] = "poll"]
    /\ UNCHANGED <<JOB_COUNTER, JOB_STATUS, callVars, worker, worker_outcome,
                   watcher, tsignal, polls, kill_issued, launch_input,
                   seen_file>>

\* Whether the `for _ in 0..20` range has an iteration left after `slept`
\* iterations that slept.
LoopGoesOn(slept) == slept < PollAttempts

\* One iteration of the poll loop: try_wait() is Ok(None) for a live watcher
\* (sleep and go on), Ok(Some(_)) (the watcher is reaped) or Err for one that
\* has ended (break).
CoordinatorPoll(c) ==
    /\ tpc[c] = "poll"
    /\ \/ /\ watcher[c] = "alive"
          /\ IF LoopGoesOn(polls[c] + 1)
             THEN /\ polls' = [polls EXCEPT ![c] = @ + 1]
                  /\ UNCHANGED tpc
             ELSE /\ polls' = [polls EXCEPT ![c] = 0]
                  /\ tpc' = [tpc EXCEPT ![c] = "final"]
          /\ UNCHANGED watcher
       \/ /\ watcher[c] = "exited"
          /\ watcher' = [watcher EXCEPT ![c] = "reaped"]
          /\ polls' = [polls EXCEPT ![c] = 0]
          /\ tpc' = [tpc EXCEPT ![c] = "final"]
       \/ /\ watcher[c] = "exited"
          /\ polls' = [polls EXCEPT ![c] = 0]
          /\ tpc' = [tpc EXCEPT ![c] = "final"]
          /\ UNCHANGED watcher
    /\ UNCHANGED <<JOB_COUNTER, JOB_STATUS, stop_file, callVars, worker,
                   worker_outcome, tsignal, historyVars>>

\* AfterFinalTryWait with the kill taken whatever try_wait() answered.
AfterFinalTryWaitAlwaysKill(alive) == "kill"

\* AfterFinalTryWait with the kill branch never taken.
AfterFinalTryWaitNoKill(alive) == "done"

\* Where the thread goes after `if let Ok(None) = watcher_child.try_wait()`.
AfterFinalTryWait(alive) == IF alive THEN "kill" ELSE "done"

\* The try_wait() after the loop: Ok(None) leads to the kill; Ok(Some(_))
\* (reaping the watcher if it was not yet) or Err ends the thread.
CoordinatorFinalCheck(c) ==
    /\ tpc[c] = "final"
    /\ \/ /\ watcher[c] = "alive"
          /\ tpc' = [tpc EXCEPT ![c] = AfterFinalTryWait(TRUE)]
          /\ UNCHANGED watcher
       \/ /\ watcher[c] \in {"exited", "reaped"}
          /\ watcher' = [watcher EXCEPT ![c] = "reaped"]
          /\ tpc' = [tpc EXCEPT ![c] = AfterFinalTryWait(FALSE)]
       \/ /\ watcher[c] = "exited"
          /\ tpc' = [tpc EXCEPT ![c] = AfterFinalTryWait(FALSE)]
          /\ UNCHANGED watcher
    /\ UNCHANGED <<JOB_COUNTER, JOB_STATUS, stop_file, callVars, worker,
                   worker_outcome, tsignal, polls, historyVars>>

\* let _ = watcher_child.kill(); let _ = watcher_child.wait();
CoordinatorKill(c) ==
    /\ tpc[c] = "kill"
    /\ watcher' = KillAndReap(watcher, c)
    /\ kill_issued' = [kill_issued EXCEPT ![c] = TRUE]
    /\ tpc' = [tpc EXCEPT ![c] = "done"]
    /\ UNCHANGED <<JOB_COUNTER, JOB_STATUS, stop_file, callVars, worker,
                   worker_outcome, tsignal, polls, stop_writer, written,
                   launch_input, seen_file>>

\* ------------------------------------------------------ get_run_job_status
get_run_job_status(id) == RunJobStatusOf(JOB_STATUS, id)

\* GetRunJobStatus written with an entry-or-insert in place of map.get.
GetRunJobStatusInserts ==
    /\ \E id \in QueryIds :
         JOB_STATUS' = IF id \in DOMAIN JOB_STATUS THEN JOB_STATUS
                       ELSE MapInsert(JOB_STATUS, id, None)
    /\ UNCHANGED <<JOB_COUNTER, stop_file, callVars, worker, worker_outcome,
                   watcher, threadVars, historyVars>>

\* A query takes the lock, reads the map and returns its answer
\* (get_run_job_status(id)): it writes nothing.
GetRunJobStatus ==
    /\ \E id \in QueryIds : get_run_job_status(id).found \in BOOLEAN
    /\ UNCHANGED vars

\* ------------------------------------------------------------ specification
CallStep(c) ==
    \/ AllocJobId(c)
    \/ RegisterJob(c)
    \/ LaunchUnpaired(c)
    \/ BeginPaired(c)
    \/ LoadRunId(c)
    \/ SpawnWatcher(c)
    \/ SpawnPairedWorker(c)

ThreadStep(c) ==
    \/ UnpairedThread(c)
    \/ CoordinatorRecord(c)
    \/ CoordinatorWriteStop(c)
    \/ CoordinatorPoll(c)
    \/ CoordinatorFinalCheck(c)
    \/ CoordinatorKill(c)

ProcessStep(c) ==
    \/ WorkerEnds(c)
    \/ WatcherSeesStop(c)
    \/ WatcherDies(c)

Next ==
    \/ \E c \in Calls : CallStep(c)
    \/ \E c \in Calls : ThreadStep(c)
    \/ \E c \in Calls : ProcessStep(c)
    \/ GetRunJobStatus

Spec == Init /\ [][Next]_vars

\* The same system with the workers' outcomes drawn from FewOutcomes.
ProcessStepFew(c) ==
    \/ WorkerEndsWith(c, FewOutcomes)
    \/ WatcherSeesStop(c)
    \/ WatcherDies(c)

NextFew ==
    \/ \E c \in Calls : CallStep(c)
    \/ \E c \in Calls : ThreadStep(c)
    \/ \E c \in Calls : ProcessStepFew(c)
    \/ GetRunJobStatus

\* A spawned thread keeps being scheduled.  Nothing is assumed of the
\* callers or of the external processes.
FairSpec ==
    /\ Init /\ [][NextFew]_vars
    /\ \A c \in Calls : WF_vars(ThreadStep(c))

\* One call, made with any of the sampled (args, cwd) pairs.
LaunchUnpairedWide(c) == LaunchUnpairedFrom(c, WideInputs)
BeginPairedWide(c) == BeginPairedFrom(c, WideInputs)

CallStepWide(c) ==
    \/ AllocJobId(c)
    \/ RegisterJob(c)
    \/ LaunchUnpairedWide(c)
    \/ BeginPairedWide(c)
    \/ LoadRunId(c)
    \/ SpawnWatcher(c)
    \/ SpawnPairedWorker(c)

NextWide ==
    \/ CallStepWide(1)
    \/ ThreadStep(1)
    \/ ProcessStepFew(1)
    \/ GetRunJobStatus

InputSpec == Init /\ [][NextWide]_vars

\* ================================================================== claims
StatusOfCall(c) == get_run_job_status(job_id[c])
ReturnedOk(c) == result[c] # None /\ result[c][1].ok
ReturnedErr(c, what) == result[c] # None /\ ~result[c][1].ok /\ result[c][1].err = what
ReturnedJobId(c) == result[c][1].job[1].job_id
StatusRunning == [found |-> TRUE, running |-> TRUE, exit_code |-> None]
StatusNotFound == [found |-> FALSE, running |-> FALSE, exit_code |-> None]

\* C1: every job id returned by a successful run_moldock_async has a registry
\* entry from the moment the call returns, and while its worker has not ended
\* a status query answers found=true, running=true, exit_code=None.
C1_ReturnedJobIsRegisteredAndRunning ==
    \A c \in Calls :
        ReturnedOk(c) =>
            /\ ReturnedJobId(c) \in DOMAIN JOB_STATUS
            /\ worker[c] = "running" =>
                   get_run_job_status(ReturnedJobId(c)) = StatusRunning

\* Two jobs were launched; the first has been recorded as exited and the
\* second, still running, is reported as running.
C1_Witness ==
    /\ MaxCalls >= 2
    /\ ReturnedOk(1) /\ ReturnedOk(2)
    /\ get_run_job_status(ReturnedJobId(1)).exit_code # None
    /\ worker[2] = "running"
    /\ get_run_job_status(ReturnedJobId(2)) = StatusRunning

\* C2: a launch that fails because the worker cannot be started leaves no
\* registry entry for the job id it had allocated.
C2_FailedLaunchRegistersNothing ==
    \A c \in Calls :
        ReturnedErr(c, "worker") => job_id[c] \notin DOMAIN JOB_STATUS

\* C3: once the worker of a launched job has ended, however it ended, the
\* job is eventually reported as not running, with an exit code (the job's
\* thread being scheduled: FairSpec).
C3_EndedWorkerIsEventuallyReported ==
    \A c \in Calls :
        (worker[c] = "ended") ~>
            (/\ StatusOfCall(c).found
             /\ ~StatusOfCall(c).running
             /\ StatusOfCall(c).exit_code # None)

\* C4: registry entries are never deleted; an entry leaves `running` only by
\* a step of the one background thread of its job, and once it holds an exit
\* code it never changes again.
C4_RegistryIsMonotone ==
    [][\A id \in DOMAIN JOB_STATUS :
          /\ id \in DOMAIN JOB_STATUS'
          /\ JOB_STATUS[id] # None => JOB_STATUS'[id] = JOB_STATUS[id]
          /\ JOB_STATUS'[id] # JOB_STATUS[id] =>
                 /\ Cardinality({c \in Calls : job_id[c] = id}) = 1
                 /\ \E c \in Calls :
                        /\ job_id[c] = id
                        /\ tpc[c] = "wait" /\ tpc'[c] # "wait"
                        /\ \A o \in Calls \ {c} : tpc'[o] = tpc[o]
                        /\ pc' = pc]_vars

\* Both jobs have been recorded as exited, after being reported as running.
C4_Witness ==
    /\ MaxCalls >= 2
    /\ \A c \in {1, 2} :
           /\ ReturnedOk(c)
           /\ tpc[c] = "done"
           /\ StatusOfCall(c).exit_code # None
    /\ job_id[1] # job_id[2]

\* The text the claim gives for a failure payload, and the reading of a
\* decimal integer (the inverse of formatting, computed on its own).
S_failed_exit_prefix ==
    <<"f", "a", "i", "l", "e", "d", "|", "r", "u", "n", "n", "e", "r", "_",
      "e", "x", "i", "t", "_", "c", "o", "d", "e", "=">>

DigitValue(ch) ==
    CASE ch = "0" -> 0 [] ch = "1" -> 1 [] ch = "2" -> 2 [] ch = "3" -> 3
      [] ch = "4" -> 4 [] ch = "5" -> 5 [] ch = "6" -> 6 [] ch = "7" -> 7
      [] ch = "8" -> 8 [] ch = "9" -> 9 [] OTHER -> -1

IsDecimal(s) ==
    /\ s # <<>>
    /\ \A i \in 1..Len(s) : DigitValue(s[i]) >= 0
    /\ Len(s) > 1 => s[1] # "0"

RECURSIVE ReadNat(_, _)
ReadNat(s, acc) ==
    IF s = <<>> THEN acc ELSE ReadNat(Tail(s), 10 * acc + DigitValue(Head(s)))

\* Whether text is the canonical decimal text of the integer n.
IsTextOfInt(text, n) ==
    IF n < 0
    THEN /\ text # <<>> /\ Head(text) = "-"
         /\ IsDecimal(Tail(text)) /\ ReadNat(Tail(text), 0) = -n
    ELSE IsDecimal(text) /\ ReadNat(text, 0) = n

IsExpectedPayload(payload, code) ==
    IF code \in {0, 2}
    THEN payload = <<"c", "o", "m", "p", "l", "e", "t", "e", "d">>
    ELSE /\ Len(payload) > Len(S_failed_exit_prefix)
         /\ SubSeq(payload, 1, Len(S_failed_exit_prefix)) = S_failed_exit_prefix
         /\ IsTextOfInt(SubSeq(payload, Len(S_failed_exit_prefix) + 1, Len(payload)), code)

ExitedWithCode(c) == worker_outcome[c].wait_ok /\ worker_outcome[c].code # None

\* C5: when the worker of a paired job exits with code n, the payload its
\* coordinator writes is `completed` for n in {0, 2} and
\* `failed|runner_exit_code=<n>` otherwise, and the registry records n.
C5_PayloadMatchesExitCode ==
    \A c \in Calls :
        (written[c] # <<>> /\ ExitedWithCode(c)) =>
            /\ IsExpectedPayload(written[c][1], worker_outcome[c].code[1])
            /\ JOB_STATUS[job_id[c]] = worker_outcome[c].code

\* One paired job exited with 2 and wrote `completed`, another exited with
\* -10 and wrote the failure payload.
C5_Witness ==
    \E a, b \in Calls :
        /\ written[a] # <<>> /\ worker_outcome[a] = [wait_ok |-> TRUE, code |-> Some(2)]
        /\ written[b] # <<>> /\ worker_outcome[b] = [wait_ok |-> TRUE, code |-> Some(-10)]
        /\ Len(written[b][1]) = Len(S_failed_exit_prefix) + 3

\* C6: while the watcher of a paired job is alive, a stop-signal file present
\* in its project was written by that job's own coordinator, after that
\* job's worker ended.
C6_WatcherSeesOnlyOwnStopSignal ==
    \A c \in Calls :
        (IsPaired(c) /\ watcher[c] = "alive" /\ stop_file[DirOf(c)] # None) =>
            /\ stop_writer[DirOf(c)] = c
            /\ worker[c] = "ended"

\* C7: after the coordinator of a paired job has written the stop signal,
\* it makes at most 20 sleeping polls, and eventually the thread is done and
\* the watcher is not alive.
C7_WatcherDoesNotOutliveGraceWindow ==
    /\ [](\A c \in Calls : polls[c] < PollAttempts)
    /\ \A c \in Calls :
           (written[c] # <<>>) ~> (tpc[c] = "done" /\ watcher[c] # "alive")

\* A watcher that never exited on its own was killed by the coordinator,
\* which has finished.
C7_Witness ==
    \E c \in Calls :
        /\ written[c] # <<>> /\ tpc[c] = "done"
        /\ kill_issued[c] /\ watcher[c] = "reaped"
        /\ stop_file[DirOf(c)] # None /\ stop_writer[DirOf(c)] = c

\* C8: after a paired call has returned, its watcher is alive only if its
\* worker was started; a call that returned the worker's launch error has
\* killed and reaped the watcher it had started.
C8_WatcherAliveOnlyWithWorker ==
    \A c \in Calls :
        pc[c] = "returned" =>
            /\ watcher[c] = "alive" => worker[c] # "unstarted"
            /\ (IsPaired(c) /\ ReturnedErr(c, "worker")) => watcher[c] = "reaped"

\* A paired call returned the worker's launch error after starting a watcher.
C8_Witness ==
    \E c \in Calls :
        /\ IsPaired(c) /\ ReturnedErr(c, "worker")
        /\ watcher[c] = "reaped" /\ worker[c] = "unstarted"

\* C9: an id the counter has not issued (0, or any id from the counter's
\* current value on) is reported as not found.
C9_UnissuedIdIsNotFound ==
    \A id \in QueryIds :
        (id = 0 \/ id >= JOB_COUNTER) => get_run_job_status(id) = StatusNotFound

\* Ids have been issued and registered, and ids remain that were not.
C9_Witness ==
    /\ JOB_COUNTER > FirstJobId + 1
    /\ \A id \in FirstJobId .. (JOB_COUNTER - 1) : get_run_job_status(id).found
    /\ \E id \in QueryIds : id >= JOB_COUNTER /\ ~get_run_job_status(id).found

\* C10: the coordinator of a job writes the stop signal at most once, and
\* only once the job's worker has ended; a thread of a non-paired job
\* writes none.
C10_StopSignalOnceAfterWorkerEnded ==
    \A c \in Calls :
        /\ Len(written[c]) <= 1
        /\ written[c] # <<>> => (worker[c] = "ended" /\ IsPaired(c))

\* Each of two paired jobs has written its stop signal.
C10_Witness ==
    /\ MaxCalls >= 2
    /\ \A c \in {1, 2} : Len(written[c]) = 1 /\ worker[c] = "ended"

\* The call was dispatched and its first argument is not "run".
FirstArgNotRun(c) ==
    /\ launch_input[c] # None
    /\ LET args == launch_input[c][1].args IN
         args = <<>> \/ Head(args) # <<"r", "u", "n">>

\* The registry entries of ids other than id are the same in both states.
OtherEntriesKept(id) ==
    /\ DOMAIN JOB_STATUS' \subseteq DOMAIN JOB_STATUS \cup {id}
    /\ \A k \in DOMAIN JOB_STATUS :
         k # id => k \in DOMAIN JOB_STATUS' /\ JOB_STATUS'[k] = JOB_STATUS[k]

\* C11: a job whose first argument is not "run" never has a watcher, a
\* project directory, a kill or a stop-signal write; when its launch
\* succeeds only the worker was started and the RunJob has watcher_pid =
\* None.  The steps of its launch and of its thread leave every stop file
\* and every process but its worker as they were; the launch leaves the
\* registry as it was and the thread changes at most the job's own entry.
C11_UnpairedJobTouchesOnlyItsEntry ==
    /\ [](\A c \in Calls : FirstArgNotRun(c) =>
            /\ watcher[c] = "unstarted"
            /\ project_dir[c] = None
            /\ written[c] = <<>>
            /\ ~kill_issued[c]
            /\ ReturnedOk(c) =>
                 /\ result[c][1].job[1].watcher_pid = None
                 /\ result[c][1].job[1].pid = Some(WorkerPid(c))
                 /\ worker[c] # "unstarted")
    /\ [][\A c \in Calls :
            FirstArgNotRun(c)' /\ (pc'[c] # pc[c] \/ tpc'[c] # tpc[c]) =>
              /\ stop_file' = stop_file
              /\ stop_writer' = stop_writer
              /\ watcher' = watcher
              /\ JOB_COUNTER' = JOB_COUNTER
              /\ \A o \in Calls \ {c} : worker'[o] = worker[o] /\ tpc'[o] = tpc[o]
              /\ OtherEntriesKept(job_id[c])
              /\ pc'[c] # pc[c] => JOB_STATUS' = JOB_STATUS]_vars

\* A non-run job has run to its end beside a paired job that wrote its stop
\* signal.
C11_Witness ==
    \E c \in Calls, o \in Calls :
        /\ FirstArgNotRun(c)
        /\ tpc[c] = "done"
        /\ StatusOfCall(c).exit_code # None
        /\ written[o] # <<>>

\* C12: job ids are unique and increase with the order of allocation: a call
\* that allocates later holds a strictly larger id, every id held is below
\* the counter (so it is never issued again), the counter never decreases
\* and a call keeps its id.
C12_JobIdsUniqueAndIncreasing ==
    /\ [](\A a \in Calls, b \in Calls :
            (a < b /\ pc[a] # "idle" /\ pc[b] # "idle") => job_id[a] < job_id[b])
    /\ [](\A c \in Calls : pc[c] # "idle" =>
            job_id[c] >= FirstJobId /\ job_id[c] < JOB_COUNTER)
    /\ [][/\ JOB_COUNTER' >= JOB_COUNTER
          /\ \A c \in Calls : pc[c] # "idle" => job_id'[c] = job_id[c]]_vars

\* Two calls hold ids, the second allocated while the first had not yet
\* registered its own.
C12_Witness ==
    /\ pc[1] = "register"
    /\ pc[2] # "idle"
    /\ job_id[2] = job_id[1] + 1

\* C13: once wait() on a job's worker has failed and the job's thread has
\* gone past it, the registry shows the job as exited with an exit code;
\* the coordinator of a paired job goes on to write the stop signal
\* failed|runner_wait_failed, and only that, and ends with its watcher gone.
C13_WaitFailureIsRecordedAsExit ==
    \A c \in Calls :
        (tpc[c] \notin {"none", "wait"} /\ ~worker_outcome[c].wait_ok) =>
            /\ StatusOfCall(c).found
            /\ ~StatusOfCall(c).running
            /\ StatusOfCall(c).exit_code # None
            /\ (IsPaired(c) /\ tpc[c] \notin {"signal"}) =>
                 written[c] = <<S_failed \o <<"|">> \o S_runner_wait_failed>>
            /\ (IsPaired(c) /\ tpc[c] = "done") => watcher[c] # "alive"

C15_RecordThenSignalThenPoll ==
    \A c \in Calls :
        /\ written[c] # <<>> =>
             StatusOfCall(c) = [found |-> TRUE, running |-> FALSE,
                                exit_code |-> Some(PairedCode(worker_outcome[c]))]
        /\ (tpc[c] \in {"poll", "final", "kill"} \/ polls[c] > 0 \/ kill_issued[c])
             => written[c] # <<>>
        /\ (ReturnedOk(c) /\ watcher[c] = "reaped") => written[c] # <<>>
        /\ (IsPaired(c) /\ tpc[c] = "done") => written[c] # <<>>

\* A coordinator has written its stop signal and sleeps in the poll loop
\* for the third time.
C15_Witness ==
    \E c \in Calls :
        /\ tpc[c] = "poll"
        /\ polls[c] = 3
        /\ Len(written[c]) = 1
        /\ StatusOfCall(c).exit_code # None

ClaimedArgDir(args) ==
    CASE args = <<<<"r", "u", "n">>, <<"p">>>> -> Some(<<"p">>)
      [] args = <<<<"r", "u", "n">>, <<" ", "p", " ">>>> -> Some(<<"p">>)
      [] args = <<<<"r", "u", "n">>, <<"p">>, <<"x">>>> -> Some(<<"p">>)
      [] OTHER -> None

ClaimedProjectDir(inp) ==
    IF ClaimedArgDir(inp.args) # None THEN ClaimedArgDir(inp.args) ELSE inp.cwd

\* C17: a launch whose first argument is "run" uses as project directory the
\* trimmed second argument when there is one that is not empty and does not
\* start with "-", else the cwd it was given: its thread writes the
\* stop file of no other directory.  With neither, the call returns the
\* error with no watcher, no worker and no thread started.
C17_ProjectDirFromArgThenCwd ==
    \A c \in Calls :
        (launch_input[c] # None /\ ~FirstArgNotRun(c)) =>
            LET want == ClaimedProjectDir(launch_input[c][1]) IN
            IF want = None
            THEN /\ ReturnedErr(c, "project_dir")
                 /\ project_dir[c] = None
                 /\ watcher[c] = "unstarted"
                 /\ worker[c] = "unstarted"
                 /\ tpc[c] = "none"
            ELSE /\ project_dir[c] = want
                 /\ ~ReturnedErr(c, "project_dir")
                 /\ \A d \in Dirs : stop_writer[d] = c => d = want[1]

\* A run launched with a usable second argument and a cwd naming another
\* directory has written its stop signal.
C17_Witness ==
    \E c \in Calls :
        /\ launch_input[c] # None
        /\ launch_input[c][1].cwd = Some(Dir_q)
        /\ project_dir[c] = Some(Dir_p)
        /\ written[c] # <<>>

\* C18: the coordinator kills the watcher only from the try_wait after the
\* poll loop, and only when that try_wait found the watcher alive; a poll that
\* finds the watcher ended leaves the loop at once and the try_wait after it
\* ends the thread without a kill; the loop sleeps only on a live watcher
\* and makes at most PollAttempts polls.
C18_KillOnlyAfterGraceWindow ==
    /\ [](\A c \in Calls : polls[c] < PollAttempts /\ (kill_issued[c] => tpc[c] = "done"))
    /\ [][\A c \in Calls :
            /\ (tpc'[c] = "kill" /\ tpc[c] # "kill") =>
                 tpc[c] = "final" /\ watcher[c] = "alive"
            /\ (kill_issued'[c] /\ ~kill_issued[c]) => tpc[c] = "kill"
            /\ polls'[c] > polls[c] =>
                 tpc[c] = "poll" /\ watcher[c] = "alive" /\ polls'[c] = polls[c] + 1
            /\ (tpc[c] = "poll" /\ watcher[c] # "alive"
                  /\ (tpc'[c] # tpc[c] \/ polls'[c] # polls[c])) =>
                 tpc'[c] = "final" /\ ~kill_issued'[c]
            /\ (tpc[c] = "final" /\ watcher[c] # "alive" /\ tpc'[c] # tpc[c]) =>
                 tpc'[c] = "done" /\ ~kill_issued'[c]]_vars

\* The watcher has exited by itself while the coordinator, having slept in
\* the loop, is still polling.
C18_Witness ==
    \E c \in Calls :
        /\ tpc[c] = "poll"
        /\ polls[c] >= 1
        /\ watcher[c] = "exited"
        /\ ~kill_issued[c]

\* C19: two different jobs whose watchers were started were never given the
\* same --run-id.
C19_RunIdsDistinct ==
    \A a \in Calls, b \in Calls :
        (a # b /\ watcher[a] # "unstarted" /\ watcher[b] # "unstarted") =>
            WatcherRunIdText(watcher_run_id[a]) # WatcherRunIdText(watcher_run_id[b])

\* C20: a launch with first argument "run" that returned an error left no
\* worker, no thread and no live watcher; when the error is that of the
\* watcher's spawn, no process of the call was ever started and nothing was
\* written or killed.
C20_FailedPairedLaunchLeavesNothing ==
    \A c \in Calls :
        /\ (launch_input[c] # None /\ ~FirstArgNotRun(c)
              /\ result[c] # None /\ ~result[c][1].ok) =>
             /\ worker[c] = "unstarted"
             /\ tpc[c] = "none"
             /\ watcher[c] \in {"unstarted", "reaped"}
        /\ ReturnedErr(c, "watcher") =>
             /\ worker[c] = "unstarted"
             /\ watcher[c] = "unstarted"
             /\ tpc[c] = "none"
             /\ written[c] = <<>>
             /\ ~kill_issued[c]

\* A paired launch has returned the error of its watcher's spawn.
C20_Witness ==
    \E c \in Calls :
        /\ ReturnedErr(c, "watcher")
        /\ pc[c] = "returned"
        /\ IsPaired(c)

=============================================================================
